---- MODULE Spec2Model ----
(***************************************************************************)
(* Model of the helpdesk roster application (src/app.py): three Flask      *)
(* request handlers (index, clock_in, clock_out) working on                *)
(*   - students.csv       the roster, read-only,                           *)
(*   - clock_in_data.csv  the ledger, appended by clock_in and read and    *)
(*                        rewritten as a whole by clock_out,               *)
(*   - the Flask session  one signed cookie per browser, holding the map   *)
(*                        'clocked_in_students'.                           *)
(* The ledger file is modelled at the level csv.reader / csv.writer work   *)
(* on: a sequence of rows, each a sequence of string fields.  One read of  *)
(* the file and one write of the file are atomic steps; a clock_out is a   *)
(* read step followed by a write step, and other requests may run between  *)
(* the two.  A browser sends one request at a time.                        *)
(***************************************************************************)
EXTENDS Integers, Sequences, FiniteSets, TLC

(* ---------- bounds and input sets ---------- *)

\* number of guarded clock-ins (fresh event ids) in one behaviour
MaxEvents == 2

\* browser sessions
Sessions == {"A", "B"}

\* the server's wall clock: the instants of the day that are told apart
Clock == <<"09:00:00 03-11-2025", "17:00:00 03-11-2025">>

\* students.csv after its header row: name, number
RosterFile == << <<"Jane Doe", "1001">>, <<"John Roe", "1002">> >>

\* values of the form field student_number; "9999" is in no roster row
FormNumbers == {"1001", "1002", "9999"}

\* contents clock_in_data.csv may have when the application starts: absent
\* or empty, or pre-made with a closed row, an open row and a short row
InitLedgers ==
  { << >>,
    << <<"1001", "Jane Doe", "old1", "08:00:00 02-11-2025", "16:00:00 02-11-2025", "clock-out">>,
       <<"1002", "John Roe", "old2", "08:00:00 02-11-2025", "", "clock-in">>,
       <<"note">> >> }

(* ---------- state ---------- *)

VARIABLES
  ledger,    \* rows of clock_in_data.csv
  session,   \* session[s]: the map 'clocked_in_students' in browser s's cookie
  pc,        \* pc[s]: "idle", or "writing" while a clock_out of s is between its read and its write
  local,     \* local[s]: the local variables of the clock_out in flight for s
  resp,      \* the last response sent, and the browser it went to
  nextId,    \* number of the next fresh event id
  now,       \* the server's wall clock, an index into Clock
  hist,      \* history: the last guarded clock_in and the ledger before it, while nothing else touched the ledger
  orphans    \* history: the event ids of the entries that said clocked_in when their session was lost

vars == <<ledger, session, pc, local, resp, nextId, now, hist, orphans>>

(* ---------- helpers ---------- *)

\* value of a local variable that was never assigned
Unbound == "<unbound>"

\* a session entry: clocked_in_students[student_number]
Entry(name, clock_in_time, unique_id, clocked_in) ==
  [name |-> name, clock_in_time |-> clock_in_time, unique_id |-> unique_id, clocked_in |-> clocked_in]

\* session.get('clocked_in_students', {}) of a browser without a session
EmptyMap == [q \in {} |-> Entry("", "", "", FALSE)]

\* the locals of clock_out; overtaken and appended are history: the
\* clock-outs of other sessions that rewrote the file since this one read
\* it, and the clock-ins that appended to the file since this one read it
\* and whose session still holds them as clocked in
NoLocal == [student_number |-> "", clock_out_time |-> "", rows |-> << >>,
            clocked_in_students |-> EmptyMap, updated |-> FALSE, overtaken |-> {},
            appended |-> {}]

NoHist == [set |-> FALSE, s |-> "", p |-> "", before |-> << >>, id |-> "", time |-> ""]

NoResp == [status |-> 0, location |-> "", flash |-> "", students |-> << >>]

\* datetime.now().strftime('%H:%M:%S %d-%m-%Y')
strftime(t) == Clock[t]

\* load_students(): one dict per roster row, in file order
load_students ==
  [i \in 1..Len(RosterFile) |-> [name |-> RosterFile[i][1], number |-> RosterFile[i][2]]]

\* student_name_of with student_name set to the empty string before the loop
student_name_of_preset(students, student_number) ==
  IF \E i \in 1..Len(students) : students[i].number = student_number
  THEN LET i == CHOOSE i \in 1..Len(students) :
                  /\ students[i].number = student_number
                  /\ \A j \in 1..(i-1) : students[j].number # student_number
       IN students[i].name
  ELSE ""

\* the loop of clock_in: name of the first student with this number;
\* student_name stays unassigned when no student matches
student_name_of(students, student_number) ==
  IF \E i \in 1..Len(students) : students[i].number = student_number
  THEN LET i == CHOOSE i \in 1..Len(students) :
                  /\ students[i].number = student_number
                  /\ \A j \in 1..(i-1) : students[j].number # student_number
       IN students[i].name
  ELSE Unbound

\* uuid4 returning the same token every time
uuid4_fixed(n) == "id1"

\* str(uuid.uuid4())[:8], taken to be fresh
uuid4(n) == "id" \o ToString(n)

\* student_clocked_in testing the key only
student_clocked_in_key_only(clocked_in_students, student_number) ==
  student_number \in DOMAIN clocked_in_students

\* index: student_number in clocked_in_students and clocked_in_students[student_number]['clocked_in']
student_clocked_in(clocked_in_students, student_number) ==
  /\ student_number \in DOMAIN clocked_in_students
  /\ clocked_in_students[student_number].clocked_in

\* clock_in: student_number in clocked_in_students and clocked_in_students[student_number]['clocked_in']
already_clocked_in(clocked_in_students, student_number) ==
  /\ student_number \in DOMAIN clocked_in_students
  /\ clocked_in_students[student_number].clocked_in

\* not_clocked_in testing the key only
not_clocked_in_key_only(clocked_in_students, student_number) ==
  student_number \notin DOMAIN clocked_in_students

\* clock_out: student_number not in clocked_in_students or not clocked_in_students[student_number]['clocked_in']
not_clocked_in(clocked_in_students, student_number) ==
  IF student_number \notin DOMAIN clocked_in_students
  THEN TRUE
  ELSE ~ clocked_in_students[student_number].clocked_in

\* redirect('/') with the messages flashed during the request
redirect(flash) == [status |-> 302, location |-> "/", flash |-> flash, students |-> << >>]

\* an exception that leaves the handler: the framework answers 500
server_error == [status |-> 500, location |-> "", flash |-> "", students |-> << >>]

(* ---------- Init ---------- *)

Init ==
  /\ ledger \in InitLedgers
  /\ session = [s \in Sessions |-> EmptyMap]
  /\ pc = [s \in Sessions |-> "idle"]
  /\ local = [s \in Sessions |-> NoLocal]
  /\ resp = NoResp
  /\ nextId = 1
  /\ now = 1
  /\ hist = NoHist
  /\ orphans = {}

(* ---------- GET / ---------- *)

\* the loop of index: each student with its clocked_in flag
index_students(clocked_in_students) ==
  LET student_data == load_students
  IN [i \in 1..Len(student_data) |->
        [name |-> student_data[i].name,
         number |-> student_data[i].number,
         clocked_in |-> student_clocked_in(clocked_in_students, student_data[i].number)]]

index(s) ==
  /\ pc[s] = "idle"
  /\ UNCHANGED <<ledger, session, pc, local, nextId, now, hist, orphans>>
  /\ resp' = [status |-> 200, location |-> "", flash |-> "",
              students |-> index_students(session[s])]

(* ---------- POST /clock_in ---------- *)

\* clock_in_row with name and number in the order of students.csv
clock_in_row_name_first(student_number, student_name, unique_id, clock_in_time) ==
  <<student_name, student_number, unique_id, clock_in_time, "", "clock-in">>

\* the row clock_in writes
clock_in_row(student_number, student_name, unique_id, clock_in_time) ==
  <<student_number, student_name, unique_id, clock_in_time, "", "clock-in">>

\* set_entry starting from an empty map
set_entry_alone(clocked_in_students, student_number, entry) ==
  [q \in {student_number} |-> entry]

\* clocked_in_students[student_number] = {...}
set_entry(clocked_in_students, student_number, entry) ==
  [q \in (DOMAIN clocked_in_students) \cup {student_number} |->
     IF q = student_number THEN entry ELSE clocked_in_students[q]]

\* clock_in_blocked without its return: the handler flashes and goes on
clock_in_blocked_no_return(s, student_number) ==
  /\ pc[s] = "idle"
  /\ nextId <= MaxEvents
  /\ already_clocked_in(session[s], student_number)
  /\ LET student_name == student_name_of(load_students, student_number)
         unique_id == uuid4(nextId)
     IN /\ ledger' = Append(ledger,
                        clock_in_row(student_number, student_name, unique_id, strftime(now)))
        /\ session' = [session EXCEPT ![s] =
                         set_entry(session[s], student_number,
                                   Entry(student_name, strftime(now), unique_id, TRUE))]
  /\ nextId' = nextId + 1
  /\ hist' = NoHist
  /\ resp' = redirect("Error: you are already clocked in")
  /\ UNCHANGED <<pc, local, now, orphans>>

\* the student is already clocked in: flash and redirect
clock_in_blocked(s, student_number) ==
  /\ pc[s] = "idle"
  /\ already_clocked_in(session[s], student_number)
  /\ resp' = redirect("Error: you are already clocked in")
  /\ UNCHANGED <<ledger, session, pc, local, nextId, now, hist, orphans>>

\* no student has this number: writer.writerow([... student_name ...]) reads
\* a local that was never assigned, and UnboundLocalError leaves the handler
\* before a row is written and before the session is assigned
clock_in_unbound(s, student_number) ==
  /\ pc[s] = "idle"
  /\ ~ already_clocked_in(session[s], student_number)
  /\ resp' = server_error
  /\ student_name_of(load_students, student_number) = Unbound
  /\ UNCHANGED <<ledger, session, pc, local, nextId, now, hist, orphans>>

\* append the row, update the session, redirect
clock_in_append(s, student_number) ==
  /\ pc[s] = "idle"
  /\ nextId <= MaxEvents
  /\ nextId' = nextId + 1
  /\ ~ already_clocked_in(session[s], student_number)
  /\ LET clocked_in_students == session[s]
         student_name == student_name_of(load_students, student_number)
         unique_id == uuid4(nextId)
         clock_in_time == strftime(now)
     IN /\ student_name # Unbound
        /\ ledger' = Append(ledger,
                        clock_in_row(student_number, student_name, unique_id, clock_in_time))
        /\ session' = [session EXCEPT ![s] =
                         set_entry(clocked_in_students, student_number,
                                   Entry(student_name, clock_in_time, unique_id, TRUE))]
        /\ hist' = [set |-> TRUE, s |-> s, p |-> student_number, before |-> ledger,
                    id |-> unique_id, time |-> clock_in_time]
  /\ local' = [r \in Sessions |->
                IF pc[r] = "writing"
                THEN [local[r] EXCEPT !.appended = @ \cup
                        {[s |-> s, p |-> student_number, id |-> uuid4(nextId)]}]
                ELSE local[r]]
  /\ resp' = redirect("")
  /\ UNCHANGED <<pc, now, orphans>>

clock_in(s, student_number) ==
  \/ clock_in_blocked(s, student_number)
  \/ clock_in_unbound(s, student_number)
  \/ clock_in_append(s, student_number)

(* ---------- POST /clock_out ---------- *)

\* row_matches without the comparison of the event id
row_matches_any_id(row, student_number, unique_id) ==
  /\ Len(row) >= 6
  /\ row[1] = student_number
  /\ row[6] = "clock-in"

\* row_matches comparing the student number only
row_matches_number_only(row, student_number, unique_id) ==
  /\ Len(row) >= 6
  /\ row[1] = student_number

\* the test of the scan loop
row_matches(row, student_number, unique_id) ==
  /\ Len(row) >= 6
  /\ row[1] = student_number
  /\ row[3] = unique_id
  /\ row[6] = "clock-in"

\* close_row setting the status only
close_row_status_only(row, student_number, unique_id, clock_out_time) ==
  IF row_matches(row, student_number, unique_id)
  THEN [row EXCEPT ![6] = "clock-out"]
  ELSE row

\* the body of the scan loop for one row
close_row(row, student_number, unique_id, clock_out_time) ==
  IF row_matches(row, student_number, unique_id)
  THEN [row EXCEPT ![5] = clock_out_time, ![6] = "clock-out"]
  ELSE row

\* scan_rows keeping only the rows that have the six fields
scan_rows_skip_short(file_rows, student_number, unique_id, clock_out_time) ==
  LET full == SelectSeq(file_rows, LAMBDA row : Len(row) >= 6)
  IN [i \in 1..Len(full) |-> close_row(full[i], student_number, unique_id, clock_out_time)]

\* the scan loop: rows as appended to the list 'rows'
scan_rows(file_rows, student_number, unique_id, clock_out_time) ==
  [i \in 1..Len(file_rows) |-> close_row(file_rows[i], student_number, unique_id, clock_out_time)]

\* the flag 'updated' after the scan loop
scan_updated(file_rows, student_number, unique_id) ==
  \E i \in 1..Len(file_rows) : row_matches(file_rows[i], student_number, unique_id)

\* the guard fails: flash and redirect
clock_out_blocked(s, student_number) ==
  /\ pc[s] = "idle"
  /\ not_clocked_in(session[s], student_number)
  /\ resp' = redirect("Error: you are not clocked in")
  /\ UNCHANGED <<ledger, session, pc, local, nextId, now, hist, orphans>>

\* the guard passes: take the time, read the file and fill 'rows'
clock_out_read(s, student_number) ==
  /\ pc[s] = "idle"
  /\ pc' = [pc EXCEPT ![s] = "writing"]
  /\ ~ not_clocked_in(session[s], student_number)
  /\ LET clock_out_time == strftime(now)
         clocked_in_students == session[s]
         unique_id == clocked_in_students[student_number].unique_id
     IN local' = [local EXCEPT ![s] =
                    [student_number |-> student_number,
                     clock_out_time |-> clock_out_time,
                     rows |-> scan_rows(ledger, student_number, unique_id, clock_out_time),
                     clocked_in_students |-> clocked_in_students,
                     updated |-> scan_updated(ledger, student_number, unique_id),
                     overtaken |-> {},
                     appended |-> {}]]
  /\ UNCHANGED <<ledger, session, resp, nextId, now, hist, orphans>>

\* mark_clocked_out deleting the entry
mark_clocked_out_delete(clocked_in_students, student_number) ==
  [q \in (DOMAIN clocked_in_students) \ {student_number} |-> clocked_in_students[q]]

\* clocked_in_students[student_number]['clocked_in'] = False
mark_clocked_out(clocked_in_students, student_number) ==
  [clocked_in_students EXCEPT ![student_number].clocked_in = FALSE]

\* the locals when the clock_out of s returns; history: the clock-outs still
\* in flight note that s overtook them, and forget the clock-in of s that s
\* has now clocked out
locals_after_write(s) ==
  [r \in Sessions |->
     IF r = s THEN NoLocal
     ELSE IF pc[r] = "writing"
     THEN [local[r] EXCEPT
             !.overtaken = @ \cup
                {[s |-> s, p |-> local[s].student_number,
                  id |-> local[s].clocked_in_students[local[s].student_number].unique_id]},
             !.appended = {a \in @ : ~ (a.s = s /\ a.p = local[s].student_number)}]
     ELSE local[r]]

\* clock_out_write scanning the file as it is at the time of the write
clock_out_write_rescan(s) ==
  /\ pc[s] = "writing"
  /\ pc' = [pc EXCEPT ![s] = "idle"]
  /\ ledger' = scan_rows(ledger, local[s].student_number,
                         local[s].clocked_in_students[local[s].student_number].unique_id,
                         local[s].clock_out_time)
  /\ session' = [session EXCEPT ![s] =
                   mark_clocked_out(local[s].clocked_in_students, local[s].student_number)]
  /\ resp' = redirect("")
  /\ local' = locals_after_write(s)
  /\ hist' = NoHist
  /\ UNCHANGED <<nextId, now, orphans>>

\* clock_out_write updating the session only when the scan updated a row
clock_out_write_if_updated(s) ==
  /\ pc[s] = "writing"
  /\ pc' = [pc EXCEPT ![s] = "idle"]
  /\ ledger' = local[s].rows
  /\ session' = [session EXCEPT ![s] =
                   IF local[s].updated
                   THEN mark_clocked_out(local[s].clocked_in_students, local[s].student_number)
                   ELSE local[s].clocked_in_students]
  /\ resp' = redirect("")
  /\ local' = locals_after_write(s)
  /\ hist' = NoHist
  /\ UNCHANGED <<nextId, now, orphans>>

\* write 'rows' over the file, update the session, redirect
clock_out_write(s) ==
  /\ pc[s] = "writing"
  /\ pc' = [pc EXCEPT ![s] = "idle"]
  /\ ledger' = local[s].rows
  /\ session' = [session EXCEPT ![s] =
                   mark_clocked_out(local[s].clocked_in_students, local[s].student_number)]
  /\ resp' = redirect("")
  /\ local' = locals_after_write(s)
  /\ hist' = NoHist
  /\ UNCHANGED <<nextId, now, orphans>>

(* ---------- the browser loses its session ---------- *)

\* the cookie expires or the browser's storage is cleared, between requests
session_lost(s) ==
  /\ pc[s] = "idle"
  /\ session[s] # EmptyMap
  /\ session' = [session EXCEPT ![s] = EmptyMap]
  /\ hist' = IF hist.set /\ hist.s = s THEN NoHist ELSE hist
  /\ orphans' = orphans \cup {session[s][q].unique_id : q \in {r \in DOMAIN session[s] : session[s][r].clocked_in}}
  /\ local' = [r \in Sessions |-> [local[r] EXCEPT !.appended = {a \in @ : a.s # s}]]
  /\ UNCHANGED <<ledger, pc, resp, nextId, now>>

(* ---------- time passes ---------- *)

tick ==
  /\ now < Len(Clock)
  /\ now' = now + 1
  /\ UNCHANGED <<ledger, session, pc, local, resp, nextId, hist, orphans>>

(* ---------- specification ---------- *)

Next ==
  \/ \E s \in Sessions : index(s)
  \/ \E s \in Sessions, student_number \in FormNumbers : clock_in(s, student_number)
  \/ \E s \in Sessions, student_number \in FormNumbers : clock_out_blocked(s, student_number)
  \/ \E s \in Sessions, student_number \in FormNumbers : clock_out_read(s, student_number)
  \/ \E s \in Sessions : clock_out_write(s)
  \/ \E s \in Sessions : session_lost(s)
  \/ tick

Spec == Init /\ [][Next]_vars

\* requests handled one at a time: no request starts while a clock_out is
\* between its read and its write
NoneInFlight == \A s \in Sessions : pc[s] = "idle"

NextSerial ==
  \/ NoneInFlight /\ \E s \in Sessions : index(s)
  \/ NoneInFlight /\ \E s \in Sessions, student_number \in FormNumbers : clock_in(s, student_number)
  \/ NoneInFlight /\ \E s \in Sessions, student_number \in FormNumbers : clock_out_blocked(s, student_number)
  \/ NoneInFlight /\ \E s \in Sessions, student_number \in FormNumbers : clock_out_read(s, student_number)
  \/ \E s \in Sessions : clock_out_write(s)
  \/ \E s \in Sessions : session_lost(s)
  \/ tick

\* one request at a time, from any starting ledger, sessions may be lost
SpecSerial == Init /\ [][NextSerial]_vars

InitEmpty == Init /\ ledger = << >>

NextSerialKept ==
  \/ NoneInFlight /\ \E s \in Sessions : index(s)
  \/ NoneInFlight /\ \E s \in Sessions, student_number \in FormNumbers : clock_in(s, student_number)
  \/ NoneInFlight /\ \E s \in Sessions, student_number \in FormNumbers : clock_out_blocked(s, student_number)
  \/ NoneInFlight /\ \E s \in Sessions, student_number \in FormNumbers : clock_out_read(s, student_number)
  \/ \E s \in Sessions : clock_out_write(s)
  \/ tick

\* one request at a time, the ledger empty at the start, no session lost
SpecSerialKept == InitEmpty /\ [][NextSerialKept]_vars

TypeOK ==
  /\ nextId \in 1..(MaxEvents + 1)
  /\ now \in 1..Len(Clock)
  /\ \A s \in Sessions : pc[s] \in {"idle", "writing"}
  /\ \A s \in Sessions : DOMAIN session[s] \subseteq FormNumbers

(* ---------- properties ---------- *)

\* the numbers of the roster, read off students.csv
RosterNumbers == {RosterFile[i][2] : i \in 1..Len(RosterFile)}

\* the entry of student p in session s says clocked in
SaysIn(s, p) == p \in DOMAIN session[s] /\ session[s][p].clocked_in

\* the rows of the ledger f that carry event id e
RowsOf(f, e) == {i \in 1..Len(f) : Len(f[i]) >= 6 /\ f[i][3] = e}

\* the event ids the requests of a behaviour hand out
EventIds == {uuid4(n) : n \in 1..(MaxEvents + 1)}

\* the rows of the ledger that a clock_in wrote for identity p and that are open
OpenRows(p) ==
  {i \in 1..Len(ledger) : /\ Len(ledger[i]) >= 6
                          /\ ledger[i][1] = p
                          /\ ledger[i][3] \in EventIds
                          /\ ledger[i][6] = "clock-in"}

\* C1: whatever clock_in and clock_out requests the sessions have made, and
\* whichever sessions were lost, the ledger holds at most one row per
\* identity whose status is "clock-in".
C1_OneOpenRowPerIdentity ==
  \A p \in FormNumbers : Cardinality(OpenRows(p)) <= 1

\* C2: a clock_in for a student the session holds as clocked in appends no
\* row, leaves the session map as it is, flashes "already clocked in" and
\* answers with the redirect.
C2_ClockInWhileIn ==
  [][\A s \in Sessions, p \in FormNumbers :
       (SaysIn(s, p) /\ clock_in(s, p))
         => /\ ledger' = ledger
            /\ session' = session
            /\ pc' = pc
            /\ resp' = [status |-> 302, location |-> "/",
                        flash |-> "Error: you are already clocked in", students |-> << >>]]_vars

\* C2 witness: the warning was flashed to a session that holds a student as
\* clocked in, the student's row being the last of the ledger.
C2_Witness ==
  /\ resp.flash = "Error: you are already clocked in"
  /\ \E s \in Sessions, p \in RosterNumbers :
       /\ SaysIn(s, p)
       /\ Len(ledger) > 0
       /\ ledger[Len(ledger)][3] = session[s][p].unique_id

\* C3: a clock_out for a student who is absent from the session map or held
\* as clocked out leaves ledger and session map as they are and flashes
\* "not clocked in"; and a clock_out that went through leaves its student
\* held as clocked out, so that repeating it takes that branch.
C3_ClockOutWhileOut ==
  [][/\ \A s \in Sessions, p \in FormNumbers :
          (~ SaysIn(s, p) /\ (clock_out_blocked(s, p) \/ clock_out_read(s, p)))
            => /\ ledger' = ledger
               /\ session' = session
               /\ pc' = pc
               /\ resp' = [status |-> 302, location |-> "/",
                           flash |-> "Error: you are not clocked in", students |-> << >>]
     /\ \A s \in Sessions :
          clock_out_write(s)
            => /\ local[s].student_number \in DOMAIN session'[s]
               /\ ~ session'[s][local[s].student_number].clocked_in]_vars

\* C3 witness: the warning was flashed while a session holds a student as
\* clocked out whose row the ledger shows closed: the clock_out was repeated.
C3_Witness ==
  /\ resp.flash = "Error: you are not clocked in"
  /\ \E s \in Sessions, p \in RosterNumbers :
       /\ p \in DOMAIN session[s]
       /\ ~ session[s][p].clocked_in
       /\ \E i \in RowsOf(ledger, session[s][p].unique_id) : ledger[i][6] = "clock-out"

\* C4: a clock_in for P followed by a clock_out for P in the same session,
\* nothing else writing the ledger in between, leaves the ledger as it was
\* before the clock_in plus one row: the row of that clock_in, closed, with
\* a clock_out_time; every earlier row is what it was.
C4_RoundTrip ==
  [][\A s \in Sessions :
       (clock_out_write(s) /\ hist.set /\ hist.s = s /\ hist.p = local[s].student_number)
         => /\ Len(ledger') = Len(hist.before) + 1
            /\ SubSeq(ledger', 1, Len(hist.before)) = hist.before
            /\ LET row == ledger'[Len(ledger')]
               IN /\ Len(row) = 6
                  /\ row[1] = hist.p
                  /\ \E i \in 1..Len(RosterFile) : RosterFile[i][2] = hist.p /\ RosterFile[i][1] = row[2]
                  /\ row[3] = hist.id
                  /\ row[4] = hist.time
                  /\ row[5] # ""
                  /\ row[6] = "clock-out"]_vars

\* C4 witness: a session holds a student as clocked out, the student's row
\* is the last of a ledger that began with rows of its own, it is closed,
\* and those first rows are as they were.
C4_Witness ==
  \E s \in Sessions, p \in RosterNumbers, f \in InitLedgers :
    /\ p \in DOMAIN session[s]
    /\ ~ session[s][p].clocked_in
    /\ Len(f) > 0
    /\ ledger = Append(f, <<p, session[s][p].name, session[s][p].unique_id,
                            session[s][p].clock_in_time, Clock[Len(Clock)], "clock-out">>)

\* C5: after a clock_in for a roster student the session does not hold as
\* clocked in, the listing of that session shows the student as clocked in
\* and shows every other student as it did before.
C5_ListingAfterClockIn ==
  [][\A s \in Sessions, p \in RosterNumbers :
       (~ SaysIn(s, p) /\ clock_in(s, p))
         => LET before == index_students(session[s])
                after == index_students(session'[s])
            IN /\ Len(after) = Len(RosterFile)
               /\ \A i \in 1..Len(RosterFile) :
                    /\ after[i].number = RosterFile[i][2]
                    /\ after[i].name = RosterFile[i][1]
                    /\ IF after[i].number = p
                       THEN after[i].clocked_in
                       ELSE after[i].clocked_in = before[i].clocked_in]_vars

\* C5 witness: a session that held one student as clocked in clocked in a
\* second one: the last row of the ledger is the second student's, and both
\* are held as clocked in.
C5_Witness ==
  \E s \in Sessions, p \in RosterNumbers, q \in RosterNumbers :
    /\ p # q
    /\ SaysIn(s, p)
    /\ SaysIn(s, q)
    /\ Len(ledger) > 0
    /\ ledger[Len(ledger)][3] = session[s][p].unique_id
    /\ resp.status = 302
    /\ resp.flash = ""

\* the event ids in use: in the rows of the ledger and in the session maps
UsedIds ==
  {ledger[i][3] : i \in {j \in 1..Len(ledger) : Len(ledger[j]) >= 3}}
    \cup UNION {{session[s][p].unique_id : p \in DOMAIN session[s]} : s \in Sessions}

\* C6: a clock_in for a roster student that passes the guard appends one row
\* (number, roster name, fresh event id, clock-in time, "", "clock-in") to
\* the end of the ledger, leaves the rows before it as they are, and stores
\* that event id with clocked_in = TRUE in the session entry.
C6_ClockInAppends ==
  [][\A s \in Sessions, p \in RosterNumbers :
       (~ SaysIn(s, p) /\ clock_in(s, p))
         => /\ Len(ledger') = Len(ledger) + 1
            /\ SubSeq(ledger', 1, Len(ledger)) = ledger
            /\ LET row == ledger'[Len(ledger')]
               IN /\ Len(row) = 6
                  /\ row[1] = p
                  /\ \E i \in 1..Len(RosterFile) : RosterFile[i][2] = p /\ RosterFile[i][1] = row[2]
                  /\ row[3] \notin UsedIds
                  /\ row[4] = Clock[now]
                  /\ row[5] = ""
                  /\ row[6] = "clock-in"
                  /\ p \in DOMAIN session'[s]
                  /\ session'[s][p].unique_id = row[3]
                  /\ session'[s][p].clocked_in
                  /\ session'[s][p].clock_in_time = row[4]
                  /\ session'[s][p].name = row[2]
                  /\ \A q \in DOMAIN session[s] : q # p => session'[s][q] = session[s][q]
                  /\ \A r \in Sessions : r # s => session'[r] = session[r]]_vars

\* C6 witness: the last row of the ledger is an open row whose event id a
\* session holds with clocked_in = TRUE, after a clock_out of that student
\* in that session: the guard was passed with the entry present.
C6_Witness ==
  \E s \in Sessions, p \in RosterNumbers :
    /\ SaysIn(s, p)
    /\ Len(ledger) > 1
    /\ ledger[Len(ledger)] = <<p, session[s][p].name, session[s][p].unique_id,
                               session[s][p].clock_in_time, "", "clock-in">>
    /\ \E i \in 1..(Len(ledger) - 1) :
         /\ Len(ledger[i]) >= 6
         /\ ledger[i][1] = p
         /\ ledger[i][3] \in EventIds
         /\ ledger[i][6] = "clock-out"

\* C7 as stated: a clock_in for a number that is in no roster row, the
\* session not holding it as clocked in, is not rejected: a row is appended
\* and the session entry is set to clocked_in = TRUE.
C7_UnknownNumberProceeds ==
  [][\A s \in Sessions, p \in FormNumbers \ RosterNumbers :
       (~ SaysIn(s, p) /\ clock_in(s, p))
         => /\ Len(ledger') = Len(ledger) + 1
            /\ ledger'[Len(ledger')][1] = p
            /\ p \in DOMAIN session'[s]
            /\ session'[s][p].clocked_in
            /\ resp'.status = 302]_vars

\* C7 amended: a clock_in for a number that is in no roster row, the session
\* not holding it as clocked in, fails: the handler ends with the exception
\* of the unassigned student_name, the answer is a server error without a
\* flashed warning, no row is appended and the session map is unchanged.
C7_UnknownNumberFails ==
  [][\A s \in Sessions, p \in FormNumbers \ RosterNumbers :
       (~ SaysIn(s, p) /\ clock_in(s, p))
         => /\ ledger' = ledger
            /\ session' = session
            /\ pc' = pc
            /\ resp' = [status |-> 500, location |-> "", flash |-> "", students |-> << >>]]_vars

\* C7 witness: the server error was answered, and neither the ledger nor a
\* session map holds a number that is not in the roster.
C7_Witness ==
  /\ resp.status = 500
  /\ \A i \in 1..Len(ledger) : Len(ledger[i]) >= 6 => ledger[i][1] \in RosterNumbers
  /\ \A s \in Sessions : DOMAIN session[s] \subseteq RosterNumbers

\* C10: the listing request changes neither the ledger nor the session map,
\* and shows each roster student as clocked in exactly when the map of the
\* requesting session holds the student's number with clocked_in = TRUE.
C10_Listing ==
  [][\A s \in Sessions :
       index(s)
         => /\ ledger' = ledger
            /\ session' = session
            /\ pc' = pc
            /\ resp'.status = 200
            /\ Len(resp'.students) = Len(RosterFile)
            /\ \A i \in 1..Len(RosterFile) :
                 /\ resp'.students[i].name = RosterFile[i][1]
                 /\ resp'.students[i].number = RosterFile[i][2]
                 /\ resp'.students[i].clocked_in = SaysIn(s, RosterFile[i][2])]_vars

\* C10 witness: a listing that shows one student as clocked in and another
\* as not, the other being in a session map with clocked_in = FALSE.
C10_Witness ==
  /\ resp.status = 200
  /\ \E i, j \in 1..Len(RosterFile) :
       /\ resp.students[i].clocked_in
       /\ ~ resp.students[j].clocked_in
       /\ \E s \in Sessions :
            /\ SaysIn(s, RosterFile[i][2])
            /\ RosterFile[j][2] \in DOMAIN session[s]
            /\ ~ session[s][RosterFile[j][2]].clocked_in

\* C8 as stated: when a clock_out rewrites the ledger after a clock_out of
\* another session rewrote it, both having read before either rewrote, the
\* ledger holds the first writer's row with status "clock-in" and an empty
\* clock_out_time, and the first writer's session holds clocked_in = FALSE.
C8_FirstWriterRowStillOpen ==
  [][\A s \in Sessions :
       clock_out_write(s)
         => \A o \in local[s].overtaken :
              /\ RowsOf(ledger', o.id) # {}
              /\ \A i \in RowsOf(ledger', o.id) :
                   ledger'[i][6] = "clock-in" /\ ledger'[i][5] = ""
              /\ o.p \in DOMAIN session'[o.s]
              /\ ~ session'[o.s][o.p].clocked_in]_vars

\* C8 amended: in that interleaving, if the first writer's row was in the
\* ledger when the second writer read it, the ledger after both rewrites
\* holds that row with status "clock-in" and an empty clock_out_time; if it
\* was appended after that read, the row is missing.  The first writer's
\* request has set its session entry to clocked_in = FALSE, and the entry
\* says so for as long as it holds that row's event id.
C8_LostUpdate ==
  [][\A s \in Sessions :
       clock_out_write(s)
         => /\ session'[s][local[s].student_number].clocked_in = FALSE
            /\ \A o \in local[s].overtaken :
                 /\ o.s # s
                 /\ IF RowsOf(local[s].rows, o.id) # {}
                    THEN /\ RowsOf(ledger', o.id) # {}
                         /\ \A i \in RowsOf(ledger', o.id) :
                              ledger'[i][6] = "clock-in" /\ ledger'[i][5] = ""
                    ELSE RowsOf(ledger', o.id) = {}
                 /\ (o.p \in DOMAIN session'[o.s] /\ session'[o.s][o.p].unique_id = o.id)
                      => ~ session'[o.s][o.p].clocked_in]_vars

\* C8 witness: no request is in flight, two sessions hold a student as
\* clocked out, the row of the one is closed and the row of the other is in
\* the ledger with status "clock-in" and an empty clock_out_time.
C8_Witness ==
  /\ \A s \in Sessions : pc[s] = "idle"
  /\ \E s1 \in Sessions, s2 \in Sessions, p1 \in RosterNumbers, p2 \in RosterNumbers :
       /\ s1 # s2
       /\ p1 \in DOMAIN session[s1] /\ ~ session[s1][p1].clocked_in
       /\ p2 \in DOMAIN session[s2] /\ ~ session[s2][p2].clocked_in
       /\ \E i \in RowsOf(ledger, session[s1][p1].unique_id) :
            ledger[i][6] = "clock-in" /\ ledger[i][5] = ""
       /\ \E j \in RowsOf(ledger, session[s2][p2].unique_id) :
            ledger[j][6] = "clock-out"

\* C9: a row whose session was lost while its entry said clocked in is
\* never changed to "clock-out" by a later request of any session: as long
\* as it is in the ledger its status is "clock-in" and its clock_out_time
\* is empty.
C9_OrphanStaysOpen ==
  \A i \in 1..Len(ledger) :
    (Len(ledger[i]) >= 6 /\ ledger[i][3] \in orphans)
      => ledger[i][6] = "clock-in" /\ ledger[i][5] = ""

\* C9 witness: the ledger holds the open row of a lost session and, after
\* it, a row of the same student that a later clock_in opened and a later
\* clock_out closed.
C9_Witness ==
  \E i \in 1..Len(ledger), j \in 1..Len(ledger) :
    /\ i < j
    /\ Len(ledger[i]) >= 6 /\ Len(ledger[j]) >= 6
    /\ ledger[i][3] \in orphans
    /\ ledger[i][6] = "clock-in"
    /\ ledger[j][1] = ledger[i][1]
    /\ ledger[j][3] \in EventIds
    /\ ledger[j][6] = "clock-out"

\* C11: a clock_out that passes the guard writes back the rows it read, as
\* many and in the same order; a row is changed only if it has six fields,
\* the submitted number, the event id the session holds for that number and
\* the status "clock-in", and then only in its clock_out_time and status.
C11_RewriteKeepsRows ==
  [][\A s \in Sessions, p \in FormNumbers :
       /\ (clock_out_read(s, p) /\ SaysIn(s, p))
            => LET rows == local'[s].rows
                   e == session[s][p].unique_id
               IN /\ Len(rows) = Len(ledger)
                  /\ \A i \in 1..Len(ledger) :
                       IF /\ Len(ledger[i]) >= 6
                          /\ ledger[i][1] = p
                          /\ ledger[i][3] = e
                          /\ ledger[i][6] = "clock-in"
                       THEN /\ Len(rows[i]) = Len(ledger[i])
                            /\ \A k \in 1..Len(ledger[i]) :
                                 k \notin {5, 6} => rows[i][k] = ledger[i][k]
                            /\ rows[i][5] = Clock[now]
                            /\ rows[i][6] = "clock-out"
                       ELSE rows[i] = ledger[i]
       /\ (clock_out_write(s) /\ local[s].student_number = p)
            => ledger' = local[s].rows]_vars

\* C11 witness: the ledger that began with a closed row, an open row of
\* John Roe under another event id and a short row holds these three as
\* they were, followed by the row John Roe's session opened and closed.
C11_Witness ==
  /\ Len(ledger) = 4
  /\ \E f \in InitLedgers : Len(f) = 3 /\ SubSeq(ledger, 1, 3) = f
  /\ ledger[2][1] = "1002" /\ ledger[2][6] = "clock-in"
  /\ ledger[4][1] = "1002" /\ ledger[4][6] = "clock-out"
  /\ \E s \in Sessions :
       /\ "1002" \in DOMAIN session[s]
       /\ session[s]["1002"].unique_id = ledger[4][3]
       /\ ~ session[s]["1002"].clocked_in

\* C12: a clock_out that passes the guard ends with the session entry at
\* clocked_in = FALSE and with the plain redirect, whether or not the scan
\* found an open row; when no row matches, the rows it writes are the rows
\* it read and nothing is flashed.
C12_ClockOutAlwaysMarksOut ==
  [][\A s \in Sessions, p \in FormNumbers :
       /\ (/\ clock_out_read(s, p)
           /\ SaysIn(s, p)
           /\ ~ \E i \in 1..Len(ledger) :
                  /\ Len(ledger[i]) >= 6
                  /\ ledger[i][1] = p
                  /\ ledger[i][3] = session[s][p].unique_id
                  /\ ledger[i][6] = "clock-in")
            => /\ local'[s].rows = ledger
               /\ ~ local'[s].updated
               /\ resp' = resp
       /\ (clock_out_write(s) /\ local[s].student_number = p)
            => /\ p \in DOMAIN session'[s]
               /\ ~ session'[s][p].clocked_in
               /\ \A q \in DOMAIN session[s] : q # p => session'[s][q] = session[s][q]
               /\ resp' = [status |-> 302, location |-> "/", flash |-> "", students |-> << >>]
               /\ ledger' = local[s].rows
               /\ pc'[s] = "idle"]_vars

\* C12 witness: no request is in flight, the last response is the plain
\* redirect, and a session holds a student as clocked out under an event id
\* that no row of the ledger carries: its clock_out matched nothing.
C12_Witness ==
  /\ \A s \in Sessions : pc[s] = "idle"
  /\ resp = [status |-> 302, location |-> "/", flash |-> "", students |-> << >>]
  /\ \E s \in Sessions, p \in RosterNumbers :
       /\ p \in DOMAIN session[s]
       /\ ~ session[s][p].clocked_in
       /\ RowsOf(ledger, session[s][p].unique_id) = {}

\* C13: in a session that is not lost every identity is OUT at first (no
\* entry), goes IN only by a clock_in that passed the guard and OUT only by
\* a clock_out that passed the guard, each such request changing the state,
\* so that the two alternate; and no handler removes an entry. A step that
\* leaves the session's map as it is changes no identity's state, so it
\* must be neither of the two requests.
C13_StateMachine ==
  /\ \A s \in Sessions, p \in FormNumbers : ~ SaysIn(s, p)
  /\ [][\A s \in Sessions :
          IF session'[s] = session[s]
          THEN /\ \A p \in FormNumbers : ~ clock_in_append(s, p)
               /\ clock_out_write(s) => local[s].student_number \notin FormNumbers
          ELSE \A p \in FormNumbers :
                 /\ (~ SaysIn(s, p) /\ SaysIn(s, p)') => clock_in_append(s, p)
                 /\ (SaysIn(s, p) /\ ~ SaysIn(s, p)')
                      => \/ clock_out_write(s) /\ local[s].student_number = p
                         \/ session_lost(s)
                 /\ clock_in_append(s, p) => (~ SaysIn(s, p) /\ SaysIn(s, p)')
                 /\ (clock_out_write(s) /\ local[s].student_number = p)
                      => (SaysIn(s, p) /\ ~ SaysIn(s, p)')
                 /\ (p \in DOMAIN session[s] /\ p \notin DOMAIN session'[s])
                      => session_lost(s)]_vars

\* C13 witness: without any session having been lost, a session holds a
\* student as clocked out under the second event id, both rows of the
\* student closed: OUT, IN, OUT, IN, OUT.
C13_Witness ==
  /\ orphans = {}
  /\ \E s \in Sessions, p \in RosterNumbers :
       /\ p \in DOMAIN session[s]
       /\ ~ session[s][p].clocked_in
       /\ session[s][p].unique_id = uuid4(2)
       /\ \E i \in RowsOf(ledger, uuid4(1)) : ledger[i][1] = p /\ ledger[i][6] = "clock-out"
       /\ \E j \in RowsOf(ledger, uuid4(2)) : ledger[j][1] = p /\ ledger[j][6] = "clock-out"

\* C14: with requests handled one at a time, no session lost and the ledger
\* empty at the start: for every session entry with clocked_in = TRUE the
\* ledger has exactly one row with that number and event id, and it is
\* open; for every entry with clocked_in = FALSE the row with its event id
\* is closed and has a clock_out_time.
C14_SessionMatchesLedger ==
  \A s \in Sessions : \A p \in DOMAIN session[s] :
    LET e == session[s][p].unique_id
        mine == {i \in 1..Len(ledger) : Len(ledger[i]) >= 3 /\ ledger[i][3] = e}
    IN /\ Cardinality(mine) = 1
       /\ \A i \in mine :
            /\ Len(ledger[i]) = 6
            /\ ledger[i][1] = p
            /\ IF session[s][p].clocked_in
               THEN ledger[i][6] = "clock-in" /\ ledger[i][5] = ""
               ELSE ledger[i][6] = "clock-out" /\ ledger[i][5] # ""

\* C14 witness: one session holds a student as clocked out and, the same or
\* another session, a student as clocked in, the ledger having the two rows.
C14_Witness ==
  /\ Len(ledger) = 2
  /\ \E s \in Sessions, r \in Sessions, p \in RosterNumbers, q \in RosterNumbers :
       /\ p \in DOMAIN session[s] /\ ~ session[s][p].clocked_in
       /\ SaysIn(r, q)
       /\ session[s][p].unique_id # session[r][q].unique_id
       /\ ledger[1][6] = "clock-out"
       /\ ledger[2][6] = "clock-in"

====
